---------------------------- MODULE Spec2Model ----------------------------
(***************************************************************************)
(* A model of the retrieval pipeline of RAG_simple_chatbot_demo.ipynb:     *)
(* EmbeddingModel (get_embedding, cosine_similarity), VectorDatabase       *)
(* (add_document, find_similar_chunks) and rag_chatbot_query.              *)
(*                                                                         *)
(* Python strings are sequences of one-character strings.  The dict        *)
(* VectorDatabase.store is a sequence of <<key, value>> entries in         *)
(* insertion order (the order Python's dict iterates in).  Floats are      *)
(* exact rationals: an embedding component v stands for v / Levels.        *)
(***************************************************************************)
EXTENDS Integers, Sequences, FiniteSets, TLC

(***************************************************************************)
(* Bounds of the model.                                                    *)
(***************************************************************************)
\* the length of an embedding: stands for the 768 of get_embedding
Dim == 3
\* the values one draw of the generator can give: 0 .. Levels-1
Levels == 3
\* the seeds of the generator: stands for the 2**32 - 1 of get_embedding
SeedMod == 61
\* the values of hash(): stands for the 2**64 of Python's hash
HashMod == 1009
\* add_document is called while _chunk_counter stays within MaxChunks
MaxChunks == 3
\* top_k ranges over -MaxK .. MaxK
MaxK == 3
\* the longest file text of the runs that ingest any text
MaxTextLen == 6

(***************************************************************************)
(* Python strings.                                                         *)
(***************************************************************************)
NL == "\n"

\* str.isspace for the characters of the model
IsSpace(c) == c \in {" ", NL, "\t"}

\* the characters after the leading whitespace
RECURSIVE LStrip(_)
LStrip(s) ==
    IF s # <<>> /\ IsSpace(Head(s)) THEN LStrip(Tail(s)) ELSE s

\* the characters before the trailing whitespace
RECURSIVE RStrip(_)
RStrip(s) ==
    IF s # <<>> /\ IsSpace(s[Len(s)]) THEN RStrip(SubSeq(s, 1, Len(s) - 1)) ELSE s

\* str.strip()
Strip(s) == RStrip(LStrip(s))

\* str.split('\n\n') from position i on, cur being the piece read so far:
\* the separator is matched left to right, without overlap
RECURSIVE SplitFrom(_, _, _)
SplitFrom(s, i, cur) ==
    IF i > Len(s) THEN <<cur>>
    ELSE IF i < Len(s) /\ s[i] = NL /\ s[i + 1] = NL
         THEN <<cur>> \o SplitFrom(s, i + 2, <<>>)
         ELSE SplitFrom(s, i + 1, Append(cur, s[i]))

\* a split at every single newline
RECURSIVE SplitLinesFrom(_, _, _)
SplitLinesFrom(s, i, cur) ==
    IF i > Len(s) THEN <<cur>>
    ELSE IF s[i] = NL
         THEN <<cur>> \o SplitLinesFrom(s, i + 1, <<>>)
         ELSE SplitLinesFrom(s, i + 1, Append(cur, s[i]))

SplitLines(s) == SplitLinesFrom(s, 1, <<>>)

\* full_text.split('\n\n')
Split(s) == SplitFrom(s, 1, <<>>)

\* str(n) of a natural number
Digit(d) == CASE d = 0 -> "0" [] d = 1 -> "1" [] d = 2 -> "2" [] d = 3 -> "3"
              [] d = 4 -> "4" [] d = 5 -> "5" [] d = 6 -> "6" [] d = 7 -> "7"
              [] d = 8 -> "8" [] d = 9 -> "9"

RECURSIVE Dec(_)
Dec(n) == IF n < 10 THEN <<Digit(n)>> ELSE Append(Dec(n \div 10), Digit(n % 10))

\* os.path.basename: what follows the last "/"
RECURSIVE Basename(_)
Basename(p) ==
    IF \E i \in 1..Len(p) : p[i] = "/"
    THEN Basename(Tail(p))
    ELSE p

\* str.replace('.', '_')
ReplaceDot(s) == [i \in 1..Len(s) |-> IF s[i] = "." THEN "_" ELSE s[i]]

ChunkInfix == <<"_", "c", "h", "u", "n", "k", "_">>

\* an id that leaves the counter out: one id for all chunks of a file
ChunkIdOfFile(filepath, n) == ReplaceDot(Basename(filepath)) \o ChunkInfix \o <<"0">>

\* f"{os.path.basename(filepath).replace('.', '_')}_chunk_{self._chunk_counter}"
ChunkId(filepath, n) == ReplaceDot(Basename(filepath)) \o ChunkInfix \o Dec(n)

\* [c.strip() for c in full_text.split('\n\n') if c.strip()]
RECURSIVE StripAll(_)
StripAll(pieces) ==
    IF pieces = <<>> THEN <<>>
    ELSE LET c == Strip(Head(pieces))
         IN  (IF c # <<>> THEN <<c>> ELSE <<>>) \o StripAll(Tail(pieces))

\* [c.strip() for c in full_text.split('\n\n')]: the empty pieces kept
ChunksKeepBlank(full_text) ==
    LET pieces == Split(full_text)
    IN  [i \in 1..Len(pieces) |-> Strip(pieces[i])]

Chunks(full_text) == StripAll(Split(full_text))

(***************************************************************************)
(* The files add_document reads.                                           *)
(***************************************************************************)
Doc1 == <<"d", "o", "c", "1">>
Doc2 == <<"d", "o", "c", "2">>
DocAB == <<"d", "/", "a", ".", "b">>
DocE == <<"e">>

Paths == {Doc1, Doc2, DocAB, DocE}

\* open(filepath).read()
FileText(p) ==
    CASE p = Doc1 -> <<"A", NL, NL, "B">>
      [] p = Doc2 -> <<"C">>
      [] p = DocAB -> <<" ", "A", NL, NL, NL, " ", NL, NL, "A", " ">>
      [] p = DocE -> <<NL, " ", NL, NL>>

(***************************************************************************)
(* EmbeddingModel.                                                         *)
(***************************************************************************)
Ord(c) == CASE c = "A" -> 65 [] c = "B" -> 66 [] c = "C" -> 67
            [] c = " " -> 32 [] c = NL -> 10 [] OTHER -> 63

\* hash(text): a fixed function of the text within one process
RECURSIVE Hash(_)
Hash(text) ==
    IF text = <<>> THEN 0
    ELSE (Hash(SubSeq(text, 1, Len(text) - 1)) * 31 + Ord(text[Len(text)])) % HashMod

\* hash(text) % (2**32 - 1)
SeedOf(text) == Hash(text) % SeedMod

\* one step of the generator np.random holds
RngStep(x) == (x * 17 + 11) % SeedMod

\* np.random.rand(n) from generator state x: the n values, one per step
RECURSIVE RandVec(_, _)
RandVec(x, n) ==
    IF n = 0 THEN <<>>
    ELSE <<RngStep(x) % Levels>> \o RandVec(RngStep(x), n - 1)

\* the generator state np.random.rand(n) leaves behind
RECURSIVE RandState(_, _)
RandState(x, n) == IF n = 0 THEN x ELSE RandState(RngStep(x), n - 1)

\* get_embedding run without interruption: seed, then draw
GetEmbedding(text) == RandVec(SeedOf(text), Dim)

\* np.dot of two vectors of one length, from component i on
RECURSIVE DotFrom(_, _, _)
DotFrom(a, b, i) ==
    IF i > Len(a) THEN 0 ELSE a[i] * b[i] + DotFrom(a, b, i + 1)

\* np.dot
Dot(a, b) == DotFrom(a, b, 1)

Sign(x) == IF x > 0 THEN 1 ELSE IF x < 0 THEN 0 - 1 ELSE 0

\* the division made whatever the norms are: den = 0 is the 0/0 of a zero
\* vector, which numpy turns into nan
CosineSimilarityUnguarded(vec1, vec2) ==
    LET dot_product == Dot(vec1, vec2)
    IN  [num |-> Sign(dot_product) * dot_product * dot_product,
         den |-> Dot(vec1, vec1) * Dot(vec2, vec2)]

\* cosine_similarity: the score dot / (norm1 * norm2), kept as the exact
\* rational sign(dot) * dot^2 / (norm1^2 * norm2^2), which orders as the
\* score does; 0.0 when a norm is 0
CosineSimilarity(vec1, vec2) ==
    LET dot_product == Dot(vec1, vec2)
        norm1sq == Dot(vec1, vec1)
        norm2sq == Dot(vec2, vec2)
    IN  IF norm1sq = 0 \/ norm2sq = 0
        THEN [num |-> 0, den |-> 1]
        ELSE [num |-> Sign(dot_product) * dot_product * dot_product,
              den |-> norm1sq * norm2sq]

\* the order of two scores as floats
ScoreLess(a, b) == a.num * b.den < b.num * a.den
ScoreEq(a, b) == a.num * b.den = b.num * a.den

(***************************************************************************)
(* DocumentChunk and the dict VectorDatabase.store.                        *)
(***************************************************************************)
\* DocumentChunk.__init__: the embedding starts as the empty list
NewChunk(text, source_file, chunk_id) ==
    [text |-> text, source_file |-> source_file, chunk_id |-> chunk_id,
     embedding |-> <<>>]

\* store[key] = value: a new key goes last, an old key keeps its place
DictSet(d, key, value) ==
    IF \E i \in 1..Len(d) : d[i][1] = key
    THEN [i \in 1..Len(d) |-> IF d[i][1] = key THEN <<key, value>> ELSE d[i]]
    ELSE Append(d, <<key, value>>)

(***************************************************************************)
(* The state: the index (vector_db), the generator np.random holds, and    *)
(* what the last call was given and returned.                              *)
(***************************************************************************)
VARIABLES
    store,          \* vector_db.store, in insertion order
    chunk_counter,  \* vector_db._chunk_counter
    rng,            \* the state of the global generator np.random (any at start)
    last,           \* the last call: its arguments, the text it read, the index
                    \* before it, its result
    th              \* the threads of the concurrent runs

vars == <<store, chunk_counter, rng, last, th>>

\* the index as one value
Index == [store |-> store, counter |-> chunk_counter, rng |-> rng]

NoCall == [op |-> "none", path |-> <<>>, query |-> <<>>, vec |-> <<>>, k |-> 0,
           pre |-> <<>>, preCounter |-> 0, ret |-> <<>>, raised |-> "",
           calls |-> <<>>, prompt |-> <<>>, found |-> <<>>, failAt |-> 0,
           text |-> <<>>, vec2 |-> <<>>]

(***************************************************************************)
(* VectorDatabase.add_document.                                            *)
(***************************************************************************)
\* a counter that is never advanced
CounterNotAdvanced(c) == c

\* a counter advanced by two for one insertion
CounterSkipping(c) == c + 2

\* self._chunk_counter += 1
CounterAfterInsert(c) == c + 1

\* the chunk stored as DocumentChunk.__init__ left it, its embedding not set
StoreWithoutEmbedding(st, chunk_id, doc_chunk, embedding) ==
    DictSet(st, chunk_id, doc_chunk)

\* doc_chunk.embedding = ...; self.store[chunk_id] = doc_chunk
StoreAfterInsert(st, chunk_id, doc_chunk, embedding) ==
    DictSet(st, chunk_id, [doc_chunk EXCEPT !.embedding = embedding])

\* one round of the loop over the chunks: the index after it
LoopBody(ix, filepath, text) ==
    LET chunk_id == ChunkId(filepath, ix.counter)
        doc_chunk == NewChunk(text, filepath, chunk_id)
        seeded == SeedOf(text)
        embedding == RandVec(seeded, Dim)
    IN  [store |-> StoreAfterInsert(ix.store, chunk_id, doc_chunk, embedding),
         counter |-> CounterAfterInsert(ix.counter),
         rng |-> RandState(seeded, Dim)]

\* the loop from chunk i on; the embedding provider raises at chunk failAt
\* (0: it never raises), and the exception leaves the loop
RECURSIVE AddLoop(_, _, _, _, _)
AddLoop(ix, filepath, chunks, i, failAt) ==
    IF i > Len(chunks) THEN [ix |-> ix, raised |-> ""]
    ELSE IF i = failAt THEN [ix |-> ix, raised |-> "EmbeddingError"]
    ELSE AddLoop(LoopBody(ix, filepath, chunks[i]), filepath, chunks, i + 1, failAt)

AddDocument(ix, filepath, failAt) ==
    AddLoop(ix, filepath, Chunks(FileText(filepath)), 1, failAt)

\* no call is running: the caller has taken the result of the last one
Idle == last.op = "none"

Ingest(filepath, failAt) ==
    /\ Idle
    /\ chunk_counter + Len(Chunks(FileText(filepath))) <= MaxChunks
    /\ \E r \in {AddDocument(Index, filepath, failAt)} :
           /\ store' = r.ix.store
           /\ chunk_counter' = r.ix.counter
           /\ rng' = r.ix.rng
           /\ last' = [NoCall EXCEPT !.op = "add_document", !.path = filepath,
                           !.text = FileText(filepath),
                           !.pre = store, !.preCounter = chunk_counter,
                           !.raised = r.raised, !.failAt = failAt]
    /\ UNCHANGED th

(***************************************************************************)
(* VectorDatabase.find_similar_chunks.                                     *)
(***************************************************************************)
\* the loop over self.store.items(): (chunk, score) of every chunk whose
\* embedding is a non-empty list
RECURSIVE Similarities(_, _)
Similarities(st, query_embedding) ==
    IF st = <<>> THEN <<>>
    ELSE LET chunk == Head(st)[2]
         IN  (IF chunk.embedding # <<>>
              THEN <<[chunk |-> chunk,
                      score |-> CosineSimilarity(query_embedding, chunk.embedding)]>>
              ELSE <<>>)
             \o Similarities(Tail(st), query_embedding)

\* an unstable descending insertion: x goes before the elements it ties with
RECURSIVE InsertDescUnstable(_, _)
InsertDescUnstable(sorted, x) ==
    IF sorted = <<>> THEN <<x>>
    ELSE IF ~ScoreLess(x.score, Head(sorted).score)
         THEN <<x>> \o sorted
         ELSE <<Head(sorted)>> \o InsertDescUnstable(Tail(sorted), x)

\* where list.sort(key=score, reverse=True) puts x among the already sorted:
\* after every element whose score is at least x's (the sort is stable)
RECURSIVE InsertDesc(_, _)
InsertDesc(sorted, x) ==
    IF sorted = <<>> THEN <<x>>
    ELSE IF ScoreLess(Head(sorted).score, x.score)
         THEN <<x>> \o sorted
         ELSE <<Head(sorted)>> \o InsertDesc(Tail(sorted), x)

\* similarities.sort(key=lambda x: x[1], reverse=True)
RECURSIVE SortDesc(_, _)
SortDesc(sorted, rest) ==
    IF rest = <<>> THEN sorted
    ELSE SortDesc(InsertDesc(sorted, Head(rest)), Tail(rest))

\* similarities[:top_k + 1]: one result too many
SliceOneMore(s, top_k) ==
    SubSeq(s, 1, IF top_k + 1 < Len(s) THEN top_k + 1 ELSE Len(s))

\* similarities[:top_k], a Python slice: a negative top_k counts from the end
SliceTo(s, top_k) ==
    IF top_k >= 0
    THEN SubSeq(s, 1, IF top_k < Len(s) THEN top_k ELSE Len(s))
    ELSE SubSeq(s, 1, IF Len(s) + top_k > 0 THEN Len(s) + top_k ELSE 0)

\* a search that answers an empty store with one placeholder entry
FindSimilarChunksPlaceholder(st, query_embedding, top_k) ==
    IF st = <<>>
    THEN <<[chunk |-> NewChunk(<<>>, <<>>, <<>>), score |-> [num |-> 0, den |-> 1]]>>
    ELSE SliceTo(SortDesc(<<>>, Similarities(st, query_embedding)), top_k)

\* if not self.store: return []; else the sorted similarities, sliced
FindSimilarChunks(st, query_embedding, top_k) ==
    IF st = <<>> THEN <<>>
    ELSE SliceTo(SortDesc(<<>>, Similarities(st, query_embedding)), top_k)

\* the query vectors the model searches with
ZeroVec == [i \in 1..Dim |-> 0]
TextA == <<"A">>
TextB == <<"B">>
TextC == <<"C">>
QueryVectors ==
    {GetEmbedding(TextA), GetEmbedding(TextB), GetEmbedding(TextC), ZeroVec,
     [i \in 1..Dim |-> IF i = 1 THEN 0 - 1 ELSE 1]}

KRange == (0 - MaxK)..MaxK

\* a search that takes the oldest chunk out of the store
SearchEvicting(query_embedding, top_k) ==
    /\ Idle
    /\ last' = [NoCall EXCEPT !.op = "find_similar_chunks", !.vec = query_embedding,
                    !.k = top_k, !.pre = store, !.preCounter = chunk_counter,
                    !.ret = FindSimilarChunks(store, query_embedding, top_k)]
    /\ store' = IF store = <<>> THEN store ELSE Tail(store)
    /\ UNCHANGED <<chunk_counter, rng, th>>

Search(query_embedding, top_k) ==
    /\ Idle
    /\ last' = [NoCall EXCEPT !.op = "find_similar_chunks", !.vec = query_embedding,
                    !.k = top_k, !.pre = store, !.preCounter = chunk_counter,
                    !.ret = FindSimilarChunks(store, query_embedding, top_k)]
    /\ UNCHANGED <<store, chunk_counter, rng, th>>

(***************************************************************************)
(* simulated_llm and rag_chatbot_query.                                    *)
(***************************************************************************)
\* str.lower() of one character
LowerChar(c) ==
    CASE c = "A" -> "a" [] c = "B" -> "b" [] c = "C" -> "c"
      [] c = "D" -> "d" [] c = "E" -> "e" [] c = "F" -> "f"
      [] c = "G" -> "g" [] c = "H" -> "h" [] c = "I" -> "i"
      [] c = "J" -> "j" [] c = "K" -> "k" [] c = "L" -> "l"
      [] c = "M" -> "m" [] c = "N" -> "n" [] c = "O" -> "o"
      [] c = "P" -> "p" [] c = "Q" -> "q" [] c = "R" -> "r"
      [] c = "S" -> "s" [] c = "T" -> "t" [] c = "U" -> "u"
      [] c = "V" -> "v" [] c = "W" -> "w" [] c = "X" -> "x"
      [] c = "Y" -> "y" [] c = "Z" -> "z"
      [] OTHER -> c

\* prompt.lower()
Lower(s) == [i \in 1..Len(s) |-> LowerChar(s[i])]

\* whether kw occurs in s at position i
RECURSIVE MatchAt(_, _, _, _)
MatchAt(s, kw, i, j) ==
    \/ j > Len(kw)
    \/ /\ i + j - 1 <= Len(s)
       /\ s[i + j - 1] = kw[j]
       /\ MatchAt(s, kw, i, j + 1)

\* kw in s
Contains(s, kw) == \E i \in 1..(Len(s) - Len(kw) + 1) : MatchAt(s, kw, i, 1)

KwReset == <<"r", "e", "s", "e", "t">>
KwXyz == <<"x", "y", "z", " ", "w", "i", "r", "e", "l", "e", "s", "s", " ", "e",
      "a", "r", "b", "u", "d", "s">>
KwButton == <<"b", "u", "t", "t", "o", "n">>
KwWarranty == <<"w", "a", "r", "r", "a", "n", "t", "y">>
KwOneYear == <<"1", "-", "y", "e", "a", "r">>
KwPairing == <<"p", "a", "i", "r", "i", "n", "g">>
KwBluetooth == <<"b", "l", "u", "e", "t", "o", "o", "t", "h">>
KwWaterproof == <<"w", "a", "t", "e", "r", "p", "r", "o", "o", "f">>
KwSubmersion == <<"s", "u", "b", "m", "e", "r", "s", "i", "o", "n">>
KwLowVolume == <<"l", "o", "w", " ", "v", "o", "l", "u", "m", "e">>
KwDistorted == <<"d", "i", "s", "t", "o", "r", "t", "e", "d", " ", "s", "o", "u", "n",
      "d">>

\* simulated_llm: which of its six fixed answers it returns
SimulatedLLM(prompt) ==
    LET prompt_lower == Lower(prompt)
    IN  IF /\ Contains(prompt_lower, KwReset)
           /\ Contains(prompt_lower, KwXyz)
           /\ Contains(prompt_lower, KwButton)
        THEN "answer: reset"
        ELSE IF /\ Contains(prompt_lower, KwWarranty)
                /\ Contains(prompt_lower, KwXyz)
                /\ Contains(prompt_lower, KwOneYear)
        THEN "answer: warranty"
        ELSE IF Contains(prompt_lower, KwPairing) /\ Contains(prompt_lower, KwBluetooth)
        THEN "answer: pairing"
        ELSE IF Contains(prompt_lower, KwWaterproof) \/ Contains(prompt_lower, KwSubmersion)
        THEN "answer: waterproof"
        ELSE IF Contains(prompt_lower, KwLowVolume) \/ Contains(prompt_lower, KwDistorted)
        THEN "answer: low volume"
        ELSE "answer: not found"

\* the prompt of rag_chatbot_query up to the context
PromptHead ==
    <<NL, "Y", "o", "u", " ", "a", "r", "e", " ", "a", " ", "h", "e", "l",
      "p", "f", "u", "l", " ", "c", "u", "s", "t", "o", "m", "e", "r", " ",
      "s", "u", "p", "p", "o", "r", "t", " ", "a", "s", "s", "i", "s", "t",
      "a", "n", "t", " ", "f", "o", "r", " ", "X", "Y", "Z", " ", "W", "i",
      "r", "e", "l", "e", "s", "s", " ", "E", "a", "r", "b", "u", "d", "s",
      ".", NL, "U", "s", "e", " ", "O", "N", "L", "Y", " ", "t", "h", "e",
      " ", "f", "o", "l", "l", "o", "w", "i", "n", "g", " ", "p", "i", "e",
      "c", "e", "s", " ", "o", "f", " ", "c", "o", "n", "t", "e", "x", "t",
      " ", "t", "o", " ", "a", "n", "s", "w", "e", "r", " ", "t", "h", "e",
      " ", "q", "u", "e", "s", "t", "i", "o", "n", ".", NL, "I", "f", " ",
      "t", "h", "e", " ", "a", "n", "s", "w", "e", "r", " ", "i", "s", " ",
      "n", "o", "t", " ", "f", "o", "u", "n", "d", " ", "i", "n", " ", "t",
      "h", "e", " ", "c", "o", "n", "t", "e", "x", "t", ",", " ", "p", "o",
      "l", "i", "t", "e", "l", "y", " ", "s", "t", "a", "t", "e", " ", "t",
      "h", "a", "t", " ", "y", "o", "u", " ", "d", "o", "n", "'", "t", " ",
      "h", "a", "v", "e", " ", "e", "n", "o", "u", "g", "h", " ", "i", "n",
      "f", "o", "r", "m", "a", "t", "i", "o", "n", ".", NL, NL, "C", "o",
      "n", "t", "e", "x", "t", ":", NL>>

\* the prompt between the context and the query
PromptMid == <<NL, NL, "Q", "u", "e", "s", "t", "i", "o", "n", ":", " ">>

\* the prompt after the query
PromptTail == <<NL, NL, "A", "n", "s", "w", "e", "r", ":", NL>>

\* the context of a query that retrieved nothing
NoContext ==
    <<"N", "o", " ", "s", "p", "e", "c", "i", "f", "i", "c", " ", "c", "o",
      "n", "t", "e", "x", "t", " ", "f", "o", "u", "n", "d", " ", "i", "n",
      " ", "t", "h", "e", " ", "k", "n", "o", "w", "l", "e", "d", "g", "e",
      " ", "b", "a", "s", "e", ".">>

\* the texts joined last first
RECURSIVE JoinReversed(_)
JoinReversed(texts) ==
    IF texts = <<>> THEN <<>>
    ELSE IF Len(texts) = 1 THEN texts[1]
    ELSE JoinReversed(Tail(texts)) \o <<NL, NL>> \o texts[1]

\* "\n\n".join(texts)
RECURSIVE Join(_)
Join(texts) ==
    IF texts = <<>> THEN <<>>
    ELSE IF Len(texts) = 1 THEN texts[1]
    ELSE texts[1] \o <<NL, NL>> \o Join(Tail(texts))

\* [chunk.text for chunk, _ in relevant_chunks_with_scores]
TextsOf(pairs) == [i \in 1..Len(pairs) |-> pairs[i].chunk.text]

\* a context that is the joined texts whatever the search returned
ContextOfJoinOnly(relevant_chunks_with_scores) ==
    Join(TextsOf(relevant_chunks_with_scores))

\* the context rag_chatbot_query builds from what the search returned
ContextOf(relevant_chunks_with_scores) ==
    IF relevant_chunks_with_scores = <<>>
    THEN NoContext
    ELSE Join(TextsOf(relevant_chunks_with_scores))

\* a prompt that leaves the question out
AugmentedPromptNoQuery(context, user_query) ==
    PromptHead \o context \o PromptMid \o PromptTail

\* augmented_prompt
AugmentedPrompt(context, user_query) ==
    PromptHead \o context \o PromptMid \o user_query \o PromptTail

\* the calls out of rag_chatbot_query at which it can be cut short (the call
\* raises, or the caller is interrupted while it runs); "" is a run to the end
StopPoints == {"", "get_embedding", "simulated_llm"}

\* rag_chatbot_query: the calls it makes in order, the prompt and the
\* response.  Nothing in it catches an exception: cut short at stopAt, it
\* ends there with the exception and hands back nothing.  A get_embedding
\* cut short leaves np.random as it was, seeded, or drawn from.
RagChatbotQuery(ix, user_query, top_k_chunks, stopAt) ==
    LET seeded == SeedOf(user_query)
        query_embedding == RandVec(seeded, Dim)
        relevant == FindSimilarChunks(ix.store, query_embedding, top_k_chunks)
        prompt == AugmentedPrompt(ContextOf(relevant), user_query)
    IN  IF stopAt = "get_embedding"
        THEN [rngs |-> {ix.rng, seeded, RandState(seeded, Dim)},
              vec |-> <<>>, found |-> <<>>, prompt |-> <<>>,
              calls |-> <<"get_embedding">>,
              raised |-> "Interrupted", response |-> <<>>]
        ELSE [rngs |-> {RandState(seeded, Dim)},
              vec |-> query_embedding,
              found |-> relevant,
              prompt |-> prompt,
              calls |-> <<"get_embedding", "find_similar_chunks", "simulated_llm">>,
              raised |-> IF stopAt = "simulated_llm" THEN "Interrupted" ELSE "",
              response |-> IF stopAt = "simulated_llm" THEN <<>>
                           ELSE SimulatedLLM(prompt)]

\* the queries the model asks
QueryBlank == <<" ", " ", " ">>
QueryReset == <<"r", "e", "s", "e", "t", " ", "B", "u", "t", "t", "o", "n">>
QueryTexts == {<<>>, QueryBlank, TextA, QueryReset}

\* top_k_chunks: int = 2
DefaultTopK == 2

Answer(user_query, top_k_chunks, stopAt) ==
    /\ Idle
    /\ \E r \in {RagChatbotQuery(Index, user_query, top_k_chunks, stopAt)} :
           /\ rng' \in r.rngs
           /\ last' = [NoCall EXCEPT !.op = "rag_chatbot_query", !.query = user_query,
                           !.vec = r.vec, !.k = top_k_chunks, !.pre = store,
                           !.preCounter = chunk_counter, !.found = r.found,
                           !.ret = r.response, !.raised = r.raised,
                           !.calls = r.calls, !.prompt = r.prompt]
    /\ UNCHANGED <<store, chunk_counter, th>>

(***************************************************************************)
(* Threads calling into one index.  Nothing in VectorDatabase or           *)
(* EmbeddingModel takes a lock, so a thread can be switched out between    *)
(* any two accesses to the shared store, _chunk_counter and np.random.     *)
(* Each thread makes one call; pc is the next statement it runs.           *)
(***************************************************************************)
Threads == {"t1", "t2"}

IdleThread ==
    [pc |-> "idle", op |-> "none", path |-> <<>>, chunks |-> <<>>, i |-> 0,
     chunk_id |-> <<>>, doc_chunk |-> NewChunk(<<>>, <<>>, <<>>), text |-> <<>>,
     vec |-> <<>>, k |-> 0, size0 |-> 0, it |-> 0, sims |-> <<>>, tmp |-> 0,
     result |-> <<>>, raised |-> ""]

\* add_document is entered: the file is read and chunked (thread-local)
StartIngest(t, filepath) ==
    /\ th[t].pc = "idle"
    /\ LET chunks == Chunks(FileText(filepath))
       IN  th' = [th EXCEPT ![t] = [@ EXCEPT !.op = "add_document", !.path = filepath,
                                        !.chunks = chunks, !.i = 1,
                                        !.pc = IF chunks = <<>> THEN "done" ELSE "make_id"]]
    /\ UNCHANGED <<store, chunk_counter, rng, last>>

\* chunk_id = f"..._chunk_{self._chunk_counter}"; doc_chunk = DocumentChunk(...)
AddMakeId(t) ==
    /\ th[t].pc = "make_id"
    /\ LET text == th[t].chunks[th[t].i]
           chunk_id == ChunkId(th[t].path, chunk_counter)
       IN  th' = [th EXCEPT ![t] = [@ EXCEPT !.chunk_id = chunk_id, !.text = text,
                                        !.doc_chunk = NewChunk(text, th[t].path, chunk_id),
                                        !.pc = "seed"]]
    /\ UNCHANGED <<store, chunk_counter, rng, last>>

\* get_embedding is entered on its own (as rag_chatbot_query enters it)
StartEmbed(t, text) ==
    /\ th[t].pc = "idle"
    /\ th' = [th EXCEPT ![t] = [@ EXCEPT !.op = "get_embedding", !.text = text,
                                     !.pc = "seed"]]
    /\ UNCHANGED <<store, chunk_counter, rng, last>>

\* np.random.seed(hash(text) % (2**32 - 1))
EmbedSeed(t) ==
    /\ th[t].pc = "seed"
    /\ rng' = SeedOf(th[t].text)
    /\ th' = [th EXCEPT ![t] = [@ EXCEPT !.pc = "rand"]]
    /\ UNCHANGED <<store, chunk_counter, last>>

\* return np.random.rand(768).tolist(): drawn from whatever state the
\* generator is in now; in add_document, doc_chunk.embedding = the result
EmbedRand(t) ==
    /\ th[t].pc = "rand"
    /\ rng' = RandState(rng, Dim)
    /\ th' = [th EXCEPT ![t] =
                 IF @.op = "add_document"
                 THEN [@ EXCEPT !.doc_chunk = [@ EXCEPT !.embedding = RandVec(rng, Dim)],
                                !.pc = "store"]
                 ELSE [@ EXCEPT !.result = RandVec(rng, Dim), !.pc = "done"]]
    /\ UNCHANGED <<store, chunk_counter, last>>

\* self.store[chunk_id] = doc_chunk
AddStore(t) ==
    /\ th[t].pc = "store"
    /\ store' = DictSet(store, th[t].chunk_id, th[t].doc_chunk)
    /\ th' = [th EXCEPT ![t] = [@ EXCEPT !.pc = "load"]]
    /\ UNCHANGED <<chunk_counter, rng, last>>

\* self._chunk_counter += 1, first half: the counter is read
AddLoad(t) ==
    /\ th[t].pc = "load"
    /\ th' = [th EXCEPT ![t] = [@ EXCEPT !.tmp = chunk_counter, !.pc = "inc"]]
    /\ UNCHANGED <<store, chunk_counter, rng, last>>

\* self._chunk_counter += 1, second half: the sum is written back; then
\* the loop goes on to the next chunk or ends
AddInc(t) ==
    /\ th[t].pc = "inc"
    /\ chunk_counter' = CounterAfterInsert(th[t].tmp)
    /\ th' = [th EXCEPT ![t] = [@ EXCEPT !.i = @ + 1,
                                     !.pc = IF th[t].i < Len(th[t].chunks)
                                            THEN "make_id" ELSE "done"]]
    /\ UNCHANGED <<store, rng, last>>

\* find_similar_chunks is entered: if not self.store: return []; else the
\* iterator over self.store.items() is made and remembers the dict's size
StartSearch(t, query_embedding, top_k) ==
    /\ th[t].pc = "idle"
    /\ th' = [th EXCEPT ![t] = [@ EXCEPT !.op = "find_similar_chunks",
                                     !.vec = query_embedding, !.k = top_k,
                                     !.size0 = Len(store), !.it = 0,
                                     !.pc = IF store = <<>> THEN "done" ELSE "iter"]]
    /\ UNCHANGED <<store, chunk_counter, rng, last>>

\* one round of for chunk_id, chunk in self.store.items(): the iterator
\* raises RuntimeError when the dict's size changed under it
SearchIter(t) ==
    /\ th[t].pc = "iter"
    /\ th' = [th EXCEPT ![t] =
                 IF Len(store) # @.size0
                 THEN [@ EXCEPT !.raised = "RuntimeError", !.pc = "done"]
                 ELSE IF @.it >= Len(store)
                 THEN [@ EXCEPT !.pc = "sort"]
                 ELSE [@ EXCEPT !.it = @ + 1,
                                !.sims = @ \o Similarities(<<store[th[t].it + 1]>>,
                                                           th[t].vec)]]
    /\ UNCHANGED <<store, chunk_counter, rng, last>>

\* similarities.sort(...); return similarities[:top_k]
SearchSort(t) ==
    /\ th[t].pc = "sort"
    /\ th' = [th EXCEPT ![t] = [@ EXCEPT !.result = SliceTo(SortDesc(<<>>, th[t].sims),
                                                         th[t].k),
                                     !.pc = "done"]]
    /\ UNCHANGED <<store, chunk_counter, rng, last>>

(***************************************************************************)
(* The sequential program: one call at a time.                             *)
(***************************************************************************)
\* the caller takes the result of the call and goes on
Discard ==
    /\ ~Idle
    /\ last' = NoCall
    /\ UNCHANGED <<store, chunk_counter, rng, th>>

Init ==
    /\ store = <<>>
    /\ chunk_counter = 0
    /\ rng \in 0..(SeedMod - 1)
    /\ last = NoCall
    /\ th = [t \in Threads |-> IdleThread]

Next ==
    \/ \E p \in Paths : \E failAt \in 0..Len(Chunks(FileText(p))) : Ingest(p, failAt)
    \/ \E q \in QueryVectors : \E k \in KRange : Search(q, k)
    \/ \E u \in QueryTexts : \E k \in 0..DefaultTopK : \E stopAt \in StopPoints :
           Answer(u, k, stopAt)
    \/ Discard

Spec == Init /\ [][Next]_vars

\* the inputs of the concurrent runs
ConcQueryVectors == {GetEmbedding(TextB), ZeroVec}
ConcTexts == {TextA, TextB}

NextConc ==
    \E t \in Threads :
        \/ \E p \in Paths : StartIngest(t, p)
        \/ AddMakeId(t)
        \/ \E text \in ConcTexts : StartEmbed(t, text)
        \/ EmbedSeed(t)
        \/ EmbedRand(t)
        \/ AddStore(t)
        \/ AddLoad(t)
        \/ AddInc(t)
        \/ \E q \in ConcQueryVectors : StartSearch(t, q, DefaultTopK)
        \/ SearchIter(t)
        \/ SearchSort(t)

SpecConc == Init /\ [][NextConc]_vars

(***************************************************************************)
(* add_document over any file text: the files hold every text of up to     *)
(* MaxTextLen characters out of letters, blanks and newlines, each         *)
(* ingested as the first document of an index.                             *)
(***************************************************************************)
TextChars == {"A", "B", " ", NL}
Texts == UNION {[1..n -> TextChars] : n \in 0..MaxTextLen}

\* the path of the file that holds the text
DocT == <<"t", ".", "t", "x", "t">>

IngestText(full_text) ==
    /\ Idle
    /\ store = <<>>
    /\ \E r \in {AddLoop(Index, DocT, Chunks(full_text), 1, 0)} :
           /\ store' = r.ix.store
           /\ chunk_counter' = r.ix.counter
           /\ rng' = r.ix.rng
           /\ last' = [NoCall EXCEPT !.op = "add_document", !.path = DocT,
                           !.text = full_text,
                           !.pre = store, !.preCounter = chunk_counter,
                           !.raised = r.raised]
    /\ UNCHANGED th

NextText ==
    \/ \E full_text \in Texts : IngestText(full_text)
    \/ Discard

SpecText == Init /\ [][NextText]_vars

(***************************************************************************)
(* cosine_similarity over any two vectors of the embedding dimension with  *)
(* components -1, 0 and 1.                                                 *)
(***************************************************************************)
SimVectors == [1..Dim -> {0 - 1, 0, 1}]

Similarity(vec1, vec2) ==
    /\ Idle
    /\ last' = [NoCall EXCEPT !.op = "cosine_similarity", !.vec = vec1,
                    !.vec2 = vec2, !.pre = store, !.preCounter = chunk_counter,
                    !.ret = CosineSimilarity(vec1, vec2)]
    /\ UNCHANGED <<store, chunk_counter, rng, th>>

NextSim ==
    \/ \E vec1, vec2 \in SimVectors : Similarity(vec1, vec2)
    \/ Discard

\* cosine_similarity neither reads nor writes np.random: one state of the
\* generator stands for all
InitSim == Init /\ rng = 0

SpecSim == InitSim /\ [][NextSim]_vars

(***************************************************************************)
(* What the properties below read off the state.                           *)
(***************************************************************************)
Ids(st) == [i \in 1..Len(st) |-> st[i][1]]
TextsIn(st) == [i \in 1..Len(st) |-> st[i][2].text]

IsPrefix(a, b) == Len(a) <= Len(b) /\ SubSeq(b, 1, Len(a)) = a

\* the place of the chunk with this id in a store
PosIn(st, id) == CHOOSE i \in 1..Len(st) : st[i][1] = id

Min(a, b) == IF a < b THEN a ELSE b

\* how many chunks the last add_document got through before it ended
IngestedByLast ==
    IF last.raised = "" THEN Len(Chunks(last.text)) ELSE last.failAt - 1

\* the prefix an id must have: the source itself, or (sanitised) its base
\* name with every "." replaced by "_"
PrefixOf(source_file, sanitised) ==
    IF sanitised THEN ReplaceDot(Basename(source_file)) ELSE source_file

\* the id of the i-th stored fragment is prefix_chunk_n
IdIs(i, n, sanitised) ==
    store[i][1] = PrefixOf(store[i][2].source_file, sanitised) \o ChunkInfix \o Dec(n)

\* every id is prefix_chunk_n with n below the counter, n growing with the
\* order of insertion
IdsNumbered(sanitised) ==
    /\ \A i \in 1..Len(store) :
          /\ store[i][1] = store[i][2].chunk_id
          /\ \E n \in 0..(chunk_counter - 1) : IdIs(i, n, sanitised)
    /\ \A i, j \in 1..Len(store) :
          i < j =>
             \E n, m \in 0..(chunk_counter - 1) :
                n < m /\ IdIs(i, n, sanitised) /\ IdIs(j, m, sanitised)

\* the counter never goes back, and an insertion never lands on an id in use
CounterNeverReused ==
    /\ last.op # "none" => last.preCounter <= chunk_counter
    /\ last.op = "add_document" =>
          /\ IsPrefix(last.pre, store)
          /\ Len(store) = Len(last.pre) + IngestedByLast
    /\ \A i, j \in 1..Len(store) : i # j => store[i][1] # store[j][1]

Doc1Ids == <<Doc1 \o ChunkInfix \o <<"0">>, Doc1 \o ChunkInfix \o <<"1">>>>
ScenarioIds == Doc1Ids \o <<Doc2 \o ChunkInfix \o <<"2">>>>

\* "A\n\nB" as doc1 into a fresh index, then "C" as doc2
Scenario ==
    /\ (/\ last.op = "add_document" /\ last.path = Doc1 /\ last.raised = ""
        /\ last.pre = <<>> /\ last.preCounter = 0)
       => Ids(store) = Doc1Ids /\ TextsIn(store) = <<TextA, TextB>>
    /\ (/\ last.op = "add_document" /\ last.path = Doc2 /\ last.raised = ""
        /\ Ids(last.pre) = Doc1Ids /\ TextsIn(last.pre) = <<TextA, TextB>>)
       => Ids(store) = ScenarioIds /\ TextsIn(store) = <<TextA, TextB, TextC>>

(***************************************************************************)
(* C1, as stated: every stored id is {source_id}_chunk_{n}, source_id the  *)
(* source the fragment was ingested from and n drawn from one counter that *)
(* only grows and is never reused, also across ingests of the same source; *)
(* no two fragments share an id; doc1 then doc2 gives doc1_chunk_0,        *)
(* doc1_chunk_1, doc2_chunk_2.                                             *)
(***************************************************************************)
C1_IdsOfSource == IdsNumbered(FALSE) /\ CounterNeverReused /\ Scenario

(***************************************************************************)
(* C1, amended: the same, the prefix of an id being the base name of the   *)
(* source path with every "." replaced by "_".                             *)
(***************************************************************************)
C1_IdsOfBasename == IdsNumbered(TRUE) /\ CounterNeverReused /\ Scenario

\* a source ingested a second time, its new fragments beside its old ones
C1_Witness ==
    /\ last.op = "add_document"
    /\ Len(store) > Len(last.pre)
    /\ \E i \in 1..Len(last.pre) : last.pre[i][2].source_file = last.path

(***************************************************************************)
(* C2: in every reachable state every fragment in the store has a          *)
(* non-empty embedding, and all stored embeddings have the dimension D.    *)
(***************************************************************************)
C2_Embedded ==
    \A i \in 1..Len(store) :
        /\ store[i][2].embedding # <<>>
        /\ Len(store[i][2].embedding) = Dim

\* fragments of two documents in the store, one ingest cut short between
C2_Witness ==
    /\ Len(store) >= 2
    /\ \E i, j \in 1..Len(store) : store[i][2].source_file # store[j][2].source_file
    /\ last.op = "add_document" /\ last.raised # ""

(***************************************************************************)
(* C3: find_similar_chunks returns (fragment, score) pairs with the scores *)
(* in non-increasing order, and of two fragments with equal score the one  *)
(* inserted earlier comes first.                                           *)
(***************************************************************************)
C3_Ranking ==
    last.op = "find_similar_chunks" =>
        /\ \A i \in 1..Len(last.ret) :
              /\ \E p \in 1..Len(last.pre) : last.pre[p][2] = last.ret[i].chunk
              /\ last.ret[i].score =
                     CosineSimilarity(last.vec, last.ret[i].chunk.embedding)
        /\ \A i, j \in 1..Len(last.ret) :
              i < j =>
                 /\ ~ScoreLess(last.ret[i].score, last.ret[j].score)
                 /\ ScoreEq(last.ret[i].score, last.ret[j].score) =>
                       PosIn(last.pre, last.ret[i].chunk.chunk_id)
                           < PosIn(last.pre, last.ret[j].chunk.chunk_id)

\* a result with a strict step in the scores and a tie after it
C3_Witness ==
    /\ last.op = "find_similar_chunks"
    /\ Len(last.ret) >= 3
    /\ ScoreLess(last.ret[2].score, last.ret[1].score)
    /\ ScoreEq(last.ret[2].score, last.ret[3].score)

(***************************************************************************)
(* C4: for k > 0 find_similar_chunks returns exactly min(k, store size)    *)
(* results, and for k = 0 the empty sequence.                              *)
(***************************************************************************)
C4_TopK ==
    last.op = "find_similar_chunks" =>
        /\ last.k > 0 => Len(last.ret) = Min(last.k, Len(last.pre))
        /\ last.k = 0 => last.ret = <<>>

\* k above the size of a store of several fragments: all of them returned
C4_Witness ==
    /\ last.op = "find_similar_chunks"
    /\ Len(last.pre) >= 2
    /\ last.k > Len(last.pre)
    /\ Len(last.ret) = Len(last.pre)

(***************************************************************************)
(* C5: for every top_k <= 0, negative ones included, and every store,      *)
(* find_similar_chunks returns the empty sequence.                         *)
(***************************************************************************)
C5_NonPositiveEmpty ==
    (last.op = "find_similar_chunks" /\ last.k <= 0) => last.ret = <<>>

(***************************************************************************)
(* C6: rag_chatbot_query with an empty or whitespace-only query fails with *)
(* InvalidQueryError before anything else: no call of the embedding        *)
(* provider, of the search or of the generator.                            *)
(***************************************************************************)
C6_BlankRejected ==
    (last.op = "rag_chatbot_query" /\ Strip(last.query) = <<>>) =>
        /\ last.raised = "InvalidQueryError"
        /\ last.calls = <<>>

(***************************************************************************)
(* C7: when two add_document calls run concurrently, in every interleaving *)
(* all fragments of both documents end up in the store under pairwise      *)
(* distinct ids, none overwritten or lost: the final store size is the sum *)
(* of the two chunk counts (and so is the counter).                        *)
(***************************************************************************)
C7_NoLostFragment ==
    (\A t \in Threads : th[t].op = "add_document" /\ th[t].pc = "done") =>
        /\ Len(store) = Len(th["t1"].chunks) + Len(th["t2"].chunks)
        /\ chunk_counter = Len(store)

(***************************************************************************)
(* C8: no add_document is in progress at the same time as another          *)
(* add_document or as a find_similar_chunks on the same index.             *)
(***************************************************************************)
Running(t, op) == th[t].op = op /\ th[t].pc \notin {"idle", "done"}

C8_IngestExclusive ==
    \A t, u \in Threads :
        (t # u /\ Running(t, "add_document")) =>
            /\ ~Running(u, "add_document")
            /\ ~Running(u, "find_similar_chunks")

(***************************************************************************)
(* C9: get_embedding is a pure function of its text: any two calls with    *)
(* the same text return identical vectors of dimension D, in every         *)
(* interleaving of calls running in parallel.                              *)
(***************************************************************************)
Returned(t) == th[t].op = "get_embedding" /\ th[t].pc = "done"

C9_EmbedPure ==
    \A t, u \in Threads :
        (Returned(t) /\ Returned(u)) =>
            /\ Len(th[t].result) = Dim
            /\ th[t].text = th[u].text => th[t].result = th[u].result

(***************************************************************************)
(* C10: if embedding fails for a fragment during add_document, that        *)
(* fragment is not added, the fragments of the document ingested before it *)
(* stay in the store, and the failure is reported per fragment: the call   *)
(* hands back the list of the fragments that failed.                       *)
(***************************************************************************)
C10_FailureReported ==
    (last.op = "add_document" /\ last.failAt > 0) =>
        /\ IsPrefix(last.pre, store)
        /\ TextsIn(SubSeq(store, Len(last.pre) + 1, Len(store)))
               = SubSeq(Chunks(FileText(last.path)), 1, last.failAt - 1)
        /\ last.ret = <<last.failAt>>

(***************************************************************************)
(* C11: every add_document call that ends normally returns the number of   *)
(* fragments it added, and that number is the growth of the store during   *)
(* the call.  (A returned number n is the result <<n>>; the result of a    *)
(* call that returns None is <<>>.)                                        *)
(***************************************************************************)
C11_ReturnsCount ==
    (last.op = "add_document" /\ last.raised = "") =>
        /\ Len(store) - Len(last.pre) = Len(Chunks(FileText(last.path)))
        /\ last.ret = <<Len(store) - Len(last.pre)>>

(***************************************************************************)
(* C12: add_document on a file that holds nothing but whitespace and blank *)
(* lines adds no fragment and raises no error: the store and the counter   *)
(* are what they were before the call.                                     *)
(***************************************************************************)
C12_BlankDocument ==
    (last.op = "add_document" /\ Strip(last.text) = <<>>) =>
        /\ last.raised = ""
        /\ store = last.pre
        /\ chunk_counter = last.preCounter

\* a file of blank lines ingested into an index that holds fragments
C12_Witness ==
    /\ last.op = "add_document"
    /\ last.text # <<>>
    /\ Strip(last.text) = <<>>
    /\ Len(last.pre) >= 2
    /\ store = last.pre

(***************************************************************************)
(* C13: find_similar_chunks on an empty store returns the empty sequence   *)
(* for every top_k, positive, zero or negative, and raises nothing.        *)
(***************************************************************************)
C13_EmptyStore ==
    (last.op = "find_similar_chunks" /\ last.pre = <<>>) =>
        /\ last.ret = <<>>
        /\ last.raised = ""

\* an empty store searched with a negative top_k
C13_Witness ==
    /\ last.op = "find_similar_chunks"
    /\ last.pre = <<>>
    /\ store = <<>>
    /\ last.k < 0
    /\ last.ret = <<>>

\* an empty store searched with a positive top_k
C13_WitnessPositive ==
    /\ last.op = "find_similar_chunks"
    /\ last.pre = <<>>
    /\ last.k > 0
    /\ last.ret = <<>>

(***************************************************************************)
(* C14: query handling never changes the index.  After a call of           *)
(* find_similar_chunks or of rag_chatbot_query, run to its end or cut      *)
(* short at the embedding call or at the generator call, the store (ids,   *)
(* texts, embeddings, order) and the counter are what they were before it. *)
(***************************************************************************)
C14_QueryReadOnly ==
    last.op \in {"find_similar_chunks", "rag_chatbot_query"} =>
        /\ store = last.pre
        /\ chunk_counter = last.preCounter

\* a query over a store of several fragments cut short at the generator call
C14_Witness ==
    /\ last.op = "rag_chatbot_query"
    /\ last.raised # ""
    /\ last.calls = <<"get_embedding", "find_similar_chunks", "simulated_llm">>
    /\ Len(last.found) >= 2
    /\ Len(store) >= 2

\* a query cut short at the embedding call, and a search that found fragments
C14_WitnessEmbedding ==
    /\ last.op = "rag_chatbot_query"
    /\ last.raised # ""
    /\ last.calls = <<"get_embedding">>
    /\ Len(store) >= 2

C14_WitnessSearch ==
    /\ last.op = "find_similar_chunks"
    /\ Len(last.ret) >= 2

\* the context section of a prompt: what stands between the lines up to
\* "Context:" and the lines from "Question:" on, the query and what follows
\* it taken off the end
ContextIn(prompt, user_query) ==
    SubSeq(prompt, Len(PromptHead) + 1,
           Len(prompt) - Len(PromptTail) - Len(user_query) - Len(PromptMid))

\* a call of rag_chatbot_query that got as far as the generator
ReachedGenerator ==
    /\ last.op = "rag_chatbot_query"
    /\ Len(last.calls) = 3
    /\ last.calls[3] = "simulated_llm"

\* a call of rag_chatbot_query that got past the search
PastSearch ==
    /\ last.op = "rag_chatbot_query"
    /\ Len(last.calls) >= 2
    /\ last.calls[2] = "find_similar_chunks"

(***************************************************************************)
(* C15: whenever the search inside rag_chatbot_query returns no fragment   *)
(* (the store is empty, or top_k gives nothing), the context in the prompt *)
(* is the fixed sentence "No specific context found in the knowledge       *)
(* base.", never an empty block, and the generator is still called with    *)
(* that prompt.                                                            *)
(***************************************************************************)
C15_SentinelContext ==
    (PastSearch /\ last.found = <<>>) =>
        /\ ReachedGenerator
        /\ IsPrefix(PromptHead, last.prompt)
        /\ ContextIn(last.prompt, last.query) = NoContext
        /\ ContextIn(last.prompt, last.query) # <<>>

\* an answer over a store that holds fragments, the search asked for none
C15_Witness ==
    /\ ReachedGenerator
    /\ last.raised = ""
    /\ last.found = <<>>
    /\ Len(store) >= 2
    /\ last.k = 0

\* an answer over the empty store
C15_WitnessEmptyStore ==
    /\ ReachedGenerator
    /\ last.raised = ""
    /\ last.found = <<>>
    /\ store = <<>>
    /\ last.k > 0

\* where the i-th of the texts starts in their join: after the texts before
\* it and a two-character delimiter behind each of them
RECURSIVE Offset(_, _)
Offset(texts, i) ==
    IF i = 1 THEN 0 ELSE Offset(texts, i - 1) + Len(texts[i - 1]) + 2

(***************************************************************************)
(* C16: when the search inside rag_chatbot_query returns one or more       *)
(* fragments, the context in the prompt is exactly their texts in the      *)
(* order the search ranked them, a blank line ("\n\n") between each two,   *)
(* no text left out, repeated or moved.                                    *)
(***************************************************************************)
C16_ContextJoined ==
    (PastSearch /\ last.found # <<>>) =>
        LET ctx == ContextIn(last.prompt, last.query)
            texts == TextsOf(last.found)
            n == Len(texts)
        IN  /\ last.found = FindSimilarChunks(last.pre, GetEmbedding(last.query), last.k)
            /\ IsPrefix(PromptHead, last.prompt)
            /\ Len(ctx) = Offset(texts, n) + Len(texts[n])
            /\ \A i \in 1..n :
                  SubSeq(ctx, Offset(texts, i) + 1, Offset(texts, i) + Len(texts[i]))
                      = texts[i]
            /\ \A i \in 1..(n - 1) :
                  /\ ctx[Offset(texts, i) + Len(texts[i]) + 1] = NL
                  /\ ctx[Offset(texts, i) + Len(texts[i]) + 2] = NL

\* a prompt over two fragments with different texts
C16_Witness ==
    /\ ReachedGenerator
    /\ last.raised = ""
    /\ Len(last.found) = 2
    /\ last.found[1].chunk.text # last.found[2].chunk.text
    /\ Len(store) > 2

(***************************************************************************)
(* C17: in every call of rag_chatbot_query that runs to its end the steps  *)
(* come in the order embed the query, search, compose the prompt, call the *)
(* generator: the search is made with the embedding of the query, the      *)
(* prompt holds the instruction preamble, then the context built from what *)
(* the search returned, then the user query, the generator is called once  *)
(* with that prompt, and the call returns the generator's output as it is. *)
(***************************************************************************)
C17_Pipeline ==
    (last.op = "rag_chatbot_query" /\ last.raised = "") =>
        /\ last.calls = <<"get_embedding", "find_similar_chunks", "simulated_llm">>
        /\ last.vec = GetEmbedding(last.query)
        /\ last.found = FindSimilarChunks(last.pre, last.vec, last.k)
        /\ IsPrefix(PromptHead, last.prompt)
        /\ ContextIn(last.prompt, last.query) = ContextOf(last.found)
        /\ SubSeq(last.prompt,
                  Len(PromptHead) + Len(ContextOf(last.found)) + 1,
                  Len(last.prompt))
               = PromptMid \o last.query \o PromptTail
        /\ last.ret = SimulatedLLM(last.prompt)

\* a question about the reset button answered over retrieved fragments with
\* the generator's answer for it
C17_Witness ==
    /\ last.op = "rag_chatbot_query"
    /\ last.raised = ""
    /\ last.query = QueryReset
    /\ Len(last.found) = 2
    /\ last.ret = "answer: reset"

\* whether s holds a blank-line boundary, two newlines in a row
HasBoundary(s) == \E j \in 1..(Len(s) - 1) : s[j] = NL /\ s[j + 1] = NL

\* the first position from i on in s that holds no whitespace; Len(s) + 1
\* when there is none
RECURSIVE FirstText(_, _)
FirstText(s, i) ==
    IF i > Len(s) \/ ~IsSpace(s[i]) THEN i ELSE FirstText(s, i + 1)

\* the pieces lie in s from position i on, in this order, with nothing but
\* whitespace before, between and after them, and a boundary between each
\* two of them
RECURSIVE LaidOut(_, _, _)
LaidOut(pieces, s, i) ==
    LET p == FirstText(s, i)
    IN  IF pieces = <<>> THEN p = Len(s) + 1
        ELSE LET t == Head(pieces)
                 q == p + Len(t)
             IN  /\ q - 1 <= Len(s)
                 /\ SubSeq(s, p, q - 1) = t
                 /\ Tail(pieces) # <<>> =>
                       HasBoundary(SubSeq(s, q, FirstText(s, q) - 1))
                 /\ LaidOut(Tail(pieces), s, q)

\* what the last add_document put into the store
AddedByLast == SubSeq(store, Len(last.pre) + 1, Len(store))

(***************************************************************************)
(* C18: add_document splits the text of a document at blank-line           *)
(* boundaries ("\n\n"), drops the pieces that are empty or whitespace-only *)
(* after trimming and keeps the others, trimmed, in the order of the text. *)
(* The fragments go into the store in that order, the i-th of them (i from *)
(* 0 to n-1) numbered i above the counter at the start of the call.  A     *)
(* text with no boundary gives one fragment, the whole trimmed text.       *)
(***************************************************************************)
C18_Chunking ==
    (last.op = "add_document" /\ last.raised = "") =>
        LET texts == TextsIn(AddedByLast)
            n == Len(texts)
        IN  /\ IsPrefix(last.pre, store)
            /\ \A i \in 1..n :
                  /\ texts[i] # <<>>
                  /\ ~IsSpace(texts[i][1])
                  /\ ~IsSpace(texts[i][Len(texts[i])])
                  /\ ~HasBoundary(texts[i])
                  /\ AddedByLast[i][1] = ChunkId(last.path, last.preCounter + i - 1)
            /\ LaidOut(texts, last.text, 1)
            /\ chunk_counter = last.preCounter + n
            /\ (~HasBoundary(last.text) /\ Strip(last.text) # <<>>) =>
                  texts = <<Strip(last.text)>>

\* two paragraphs with whitespace around them, second letter first
C18_Witness ==
    /\ last.op = "add_document"
    /\ last.raised = ""
    /\ TextsIn(AddedByLast) = <<TextB, TextA>>
    /\ Len(last.text) > 4

\* a text with newlines and blanks but no boundary: one fragment
C18_WitnessWhole ==
    /\ last.op = "add_document"
    /\ last.raised = ""
    /\ Len(AddedByLast) = 1
    /\ \E j \in 1..Len(last.text) : last.text[j] = NL
    /\ Len(TextsIn(AddedByLast)[1]) = 3
    /\ Len(last.text) > 3

\* every entry of the store st (id, text, source, embedding) is in st2 as it
\* is, at its place
KeptIn(st, st2) ==
    /\ Len(st) <= Len(st2)
    /\ \A i \in 1..Len(st) : st2[i] = st[i]

(***************************************************************************)
(* C19: a fragment is immutable once stored.  No step of the program, be   *)
(* it add_document, find_similar_chunks or rag_chatbot_query, changes the  *)
(* id, text, source or embedding of a fragment that is in the store, and   *)
(* none takes a fragment out: the store only grows.                        *)
(***************************************************************************)
C19_Immutable == [][KeptIn(store, store')]_vars

\* what C19 says of the last call, read off the state after it
C19_KeptByLast == last.op # "none" => KeptIn(last.pre, store)

\* a file ingested a second time: its old fragments stay as they are beside
\* the new ones with the same text
C19_Witness ==
    /\ last.op = "add_document"
    /\ Len(last.pre) >= 1
    /\ Len(store) > Len(last.pre)
    /\ KeptIn(last.pre, store)
    /\ \E i \in 1..Len(last.pre) : \E j \in (Len(last.pre) + 1)..Len(store) :
          /\ store[i][2].text = store[j][2].text
          /\ store[i][2].source_file = store[j][2].source_file
          /\ store[i][1] # store[j][1]

\* a vector of magnitude zero: all its components are 0
ZeroMagnitude(v) == \A i \in 1..Len(v) : v[i] = 0

(***************************************************************************)
(* C20: cosine_similarity returns exactly 0.0 whenever one of its two      *)
(* vectors has magnitude zero, whatever the other one is: it raises        *)
(* nothing and its result is a number, not the nan of a division by zero   *)
(* (a score with denominator 0).                                           *)
(***************************************************************************)
C20_ZeroVector ==
    last.op = "cosine_similarity" =>
        /\ last.raised = ""
        /\ last.ret.den > 0
        /\ (ZeroMagnitude(last.vec) \/ ZeroMagnitude(last.vec2)) => last.ret.num = 0

\* a stored zero vector scored against a query that is not zero
C20_Witness ==
    /\ last.op = "cosine_similarity"
    /\ ~ZeroMagnitude(last.vec)
    /\ ZeroMagnitude(last.vec2)
    /\ last.ret.num = 0

\* the zero vector as the query, and two zero vectors
C20_WitnessQuery ==
    /\ last.op = "cosine_similarity"
    /\ ZeroMagnitude(last.vec)
    /\ ~ZeroMagnitude(last.vec2)
    /\ last.ret.num = 0

C20_WitnessBoth ==
    /\ last.op = "cosine_similarity"
    /\ ZeroMagnitude(last.vec)
    /\ ZeroMagnitude(last.vec2)
    /\ last.ret.num = 0

(***************************************************************************)
(* C21: when the calls run one after another, the number of fragments in   *)
(* the store equals _chunk_counter in every state: each add_document       *)
(* advances the counter by exactly the number of fragments it put in, and  *)
(* no insertion lands on a key that is already in the store, so the keys   *)
(* are pairwise distinct.                                                  *)
(***************************************************************************)
C21_SizeIsCounter ==
    /\ Len(store) = chunk_counter
    /\ \A i, j \in 1..Len(store) : i # j => store[i][1] # store[j][1]
    /\ last.op = "add_document" =>
          /\ Len(last.pre) = last.preCounter
          /\ Len(store) - Len(last.pre) = chunk_counter - last.preCounter
          /\ Len(store) - Len(last.pre) = IngestedByLast

\* a third ingest, of a file with several chunks, on top of two others
C21_Witness ==
    /\ last.op = "add_document"
    /\ last.raised = ""
    /\ Len(last.pre) = 1
    /\ Len(store) = 3
    /\ chunk_counter = 3

\* an ingest cut short after its first chunk: that chunk is stored and counted
C21_WitnessCutShort ==
    /\ last.op = "add_document"
    /\ last.raised # ""
    /\ last.failAt = 2
    /\ Len(last.pre) >= 1
    /\ Len(store) = Len(last.pre) + 1
    /\ chunk_counter = Len(store)

====
